---- MODULE Spec2Model ----
(***************************************************************************)
(* Model of the Todoist MCP server's credential lifecycle: the Nango       *)
(* broker client (src/src/nango-auth.ts, inlined again at the top of the   *)
(* server, src/unnamed/part_001) and the tool handlers that use it.        *)
(*                                                                         *)
(* An HTTP exchange is one request followed by either a complete response  *)
(* (status line and body) or a network-level failure.  A success response  *)
(* of the broker is a JSON object as declared by interface                 *)
(* NangoCredentials; its `credentials` object, and the `access_token` and  *)
(* `expires_at` in it, may each be missing, which is what the code's own   *)
(* checks (`?.`, `!accessToken`, `!expires_at`) provide for.               *)
(***************************************************************************)
EXTENDS Integers, Sequences, FiniteSets, TLC

\* ------------------------------------------------------------------ bounds
\* Number of calls made in a run: by the client of the exported functions,
\* one after the other, or of tools of the server.
MaxCalls == 2
\* Number of times the broker may rotate the provider token.
MaxRot == 1
\* Number of 1 ms clock steps the model lets pass.
MaxTick == 1
\* Clock origin, in ms since the epoch.
T0 == 1000000

\* ------------------------------------------------------------ JS values
\* `undefined`, and the strings the model distinguishes.
Undefined == "<undefined>"
Falsy(v) == v = Undefined \/ v = ""
\* null, the number 0 (numbers are written "#n", arrays "[...]"), and the
\* mark of a key that an object does not have.
Null == "<null>"
Zero == "#0"
Absent == "<absent>"
\* obj.key: undefined when the object has no such key.
Get(v) == IF v = Absent THEN Undefined ELSE v
\* `if (obj.key)`.
Truthy(v) == ~(Falsy(Get(v)) \/ v = Null \/ v = Zero)
\* `'key' in obj`.
HasKey(v) == v # Absent

\* A JS number that may be NaN (Date.prototype.getTime of an invalid date).
Num(n) == [nan |-> FALSE, v |-> n]
NaN == [nan |-> TRUE, v |-> 0]
NumSub(a, b) == IF a.nan \/ b.nan THEN NaN ELSE Num(a.v - b.v)
\* (a variant of < under which a comparison with NaN holds)
NumLessOrNaN(a, b) == a.nan \/ b.nan \/ a.v < b.v
NumLess(a, b) == ~a.nan /\ ~b.nan /\ a.v < b.v

\* The value of credentials.expires_at: missing, the empty string, a string
\* that is no date, or an ISO date string denoting the instant ms.
ExpAbsent == [kind |-> "absent", ms |-> 0]
ExpEmpty == [kind |-> "empty", ms |-> 0]
ExpInvalid == [kind |-> "invalid", ms |-> 0]
ExpIso(ms) == [kind |-> "iso", ms |-> ms]
ExpFalsy(e) == e.kind \in {"absent", "empty"}
\* new Date(s).getTime()
DateGetTime(e) == IF e.kind = "iso" THEN Num(e.ms) ELSE NaN

\* 5 * 60 * 1000: the refresh buffer of isTokenExpired, in ms.
bufferTime == 5 * 60 * 1000

\* The slot "main" runs the top-level code (main() of the server, or the
\* client of the exported functions).  Tool invocations run in the slots of
\* Inv: two may be in flight at once, and a slot is taken again once its
\* invocation has returned.
Main == "main"
Inv == {"a", "b"}
Slots == {Main} \cup Inv
Clock == T0 .. (T0 + MaxTick)
\* Expiry instants the broker may report: one already past, one that leaves
\* exactly the buffer at T0, one beyond the buffer for every clock value.
ExpDates == {T0 - 1, T0 + bufferTime, T0 + bufferTime + MaxTick + 1}
ExpVals == {ExpAbsent, ExpEmpty, ExpInvalid} \cup {ExpIso(t) : t \in ExpDates}
\* Expiry values isTokenExpired is called with directly at time t: every
\* instant within two ms of the buffer's edge, and the far past and future.
ExpInputs(t) ==
    {ExpAbsent, ExpEmpty, ExpInvalid}
      \cup {ExpIso(t + bufferTime + d) : d \in (-2) .. 2}
      \cup {ExpIso(t - bufferTime), ExpIso(t), ExpIso(t + 2 * bufferTime)}
Tokens == <<"tok-1", "tok-2", "tok-3", "tok-4", "tok-5">>
EnvVals(v) == {Undefined, "", v}

\* --------------------------------------------------------------- errors
\* A thrown value: the constructor's name and the message, kept as the
\* sequence of the pieces the template string is built from.
NoErr == [name |-> "", message |-> <<>>]
ErrMissingEnv ==
    [name |-> "Error",
     message |-> <<"Missing required Nango environment variables: NANGO_CONNECTION_ID, NANGO_INTEGRATION_ID, NANGO_BASE_URL, NANGO_SECRET_KEY">>]
\* (a variant that leaves the response body out)
ErrBrokerStatusNoBody(status, statusText, errorText) ==
    [name |-> "Error",
     message |-> <<"Failed to get connection credentials: ", status, " ", statusText>>]
ErrBrokerStatus(status, statusText, errorText) ==
    [name |-> "Error",
     message |-> <<"Failed to get connection credentials: ", status, " ", statusText, " - ", errorText>>]
\* node-fetch rejects with a FetchError on a network-level failure.
ErrFetch(reason) ==
    [name |-> "FetchError", message |-> <<"request failed, reason: ", reason>>]
ErrNoToken ==
    [name |-> "Error", message |-> <<"Access token not found in Nango credentials">>]
\* Reading .access_token of an undefined `credentials`.
ErrTypeError ==
    [name |-> "TypeError",
     message |-> <<"Cannot read properties of undefined (reading 'access_token')">>]
\* getAccessToken's catch: a new Error around the caught error's message.
WrapAccessTokenError(error) ==
    [name |-> "Error", message |-> <<"Failed to get access token: ">> \o error.message]

\* ------------------------------------------------------------ responses
\* The broker's JSON body.
Body(has, tok, exp) == [hasCredentials |-> has, access_token |-> tok, expires_at |-> exp]
NoBody == Body(FALSE, Undefined, ExpAbsent)
HttpResponse(status, statusText, text, json) ==
    [kind |-> "http", status |-> status, statusText |-> statusText,
     text |-> text, json |-> json, reason |-> ""]
NetworkFailure(reason) ==
    [kind |-> "fail", status |-> 0, statusText |-> "", text |-> "",
     json |-> NoBody, reason |-> reason]
NoResponse == NetworkFailure("")
\* response.ok
ResponseOk(r) == r.status >= 200 /\ r.status <= 299
\* `${response.status}` in a template string.
StatusString(s) ==
    CASE s = 200 -> "200" [] s = 401 -> "401" [] s = 500 -> "500" [] OTHER -> "0"

VARIABLES
    env,        \* process.env: the four NANGO_* variables
    now,        \* the wall clock, ms
    ncalls,     \* number of calls the client of the exported functions made
    prev,       \* the finished frame of that client's previous call, kept
                \* when it was a call of refreshTokenIfNeeded
    broker,     \* the broker's stored connection
    phase,      \* the server process: "off", "starting", "serving", "exited"
    todoistApi, \* the access token the long-lived TodoistApi client holds
    inv,        \* per slot: the call frame of the running operation
    wire,       \* per slot: its HTTP exchange in flight
    launcher    \* the launcher script that builds and spawns the server

vars == <<env, now, ncalls, prev, broker, phase, todoistApi, inv, wire, launcher>>

\* A variant of the check that forgets the secret key.
EnvMissingButKey(e) ==
    \/ Falsy(e.NANGO_CONNECTION_ID)
    \/ Falsy(e.NANGO_INTEGRATION_ID)
    \/ Falsy(e.NANGO_BASE_URL)

\* ------------------------------------------------- getConnectionCredentials
\* if (!connectionId || !integrationId || !baseUrl || !secretKey)
EnvMissing(e) ==
    \/ Falsy(e.NANGO_CONNECTION_ID)
    \/ Falsy(e.NANGO_INTEGRATION_ID)
    \/ Falsy(e.NANGO_BASE_URL)
    \/ Falsy(e.NANGO_SECRET_KEY)

\* `${v}` in a template string.
TemplateString(v) == IF v = Undefined THEN "undefined" ELSE v

\* What fetch() is given: the url with its query parameters, the method, the
\* Authorization header and the body.
Request(to, method, url, query, authorization, body) ==
    [to |-> to, method |-> method, url |-> url, query |-> query,
     authorization |-> authorization, body |-> body]

\* The request of getConnectionCredentials.
BrokerRequest(e) ==
    Request("broker", "GET",
            <<TemplateString(e.NANGO_BASE_URL), "/connection/",
              TemplateString(e.NANGO_CONNECTION_ID)>>,
            <<<<"provider_config_key", e.NANGO_INTEGRATION_ID>>,
              <<"refresh_token", "true">>>>,
            <<"Bearer ", TemplateString(e.NANGO_SECRET_KEY)>>,
            <<>>)

\* How a call ends or stands: returned a value, threw, or awaits a response.
Returned(creds, val) == [st |-> "returned", creds |-> creds, val |-> val, err |-> NoErr]
Threw(err) == [st |-> "threw", creds |-> NoBody, val |-> Undefined, err |-> err]
Awaiting == [st |-> "await", creds |-> NoBody, val |-> Undefined, err |-> NoErr]

\* getConnectionCredentials given the environment and, when it gets as far
\* as the fetch, the response: throws before the fetch on a missing
\* variable, rethrows fetch's rejection, throws on !response.ok, and
\* otherwise returns the parsed body.
getConnectionCredentials(e, resp) ==
    IF EnvMissing(e) THEN Threw(ErrMissingEnv)
    ELSE IF resp.kind = "fail" THEN Threw(ErrFetch(resp.reason))
    ELSE IF ~ResponseOk(resp)
         THEN Threw(ErrBrokerStatus(StatusString(resp.status), resp.statusText, resp.text))
    ELSE Returned(resp.json, Undefined)

\* ----------------------------------------------------------- getAccessToken
\* credentials.credentials?.access_token
OptAccessToken(c) == IF c.hasCredentials THEN c.access_token ELSE Undefined
\* credentials.credentials?.expires_at
OptExpiresAt(c) == IF c.hasCredentials THEN c.expires_at ELSE ExpAbsent

\* A variant of getAccessToken without the check of the token.
getAccessTokenUnchecked(got) ==
    IF got.st = "threw" THEN Threw(WrapAccessTokenError(got.err))
    ELSE Returned(got.creds, OptAccessToken(got.creds))

\* A variant of getAccessToken that reports every failure as a missing token.
getAccessTokenOneError(got) ==
    IF got.st = "threw" \/ Falsy(OptAccessToken(got.creds))
    THEN Threw(WrapAccessTokenError(ErrNoToken))
    ELSE Returned(got.creds, OptAccessToken(got.creds))

\* getAccessToken once getConnectionCredentials has ended with `got`: every
\* error, its own missing-token error included, passes through the catch.
getAccessToken(got) ==
    IF got.st = "threw" THEN Threw(WrapAccessTokenError(got.err))
    ELSE IF Falsy(OptAccessToken(got.creds)) THEN Threw(WrapAccessTokenError(ErrNoToken))
    ELSE Returned(got.creds, OptAccessToken(got.creds))

\* Variants of isTokenExpired: one without the buffer, one that takes a
\* missing expiry date for an expired one.
isTokenExpiredNoBuffer(credentials, t) ==
    IF ExpFalsy(OptExpiresAt(credentials)) THEN FALSE
    ELSE NumLess(NumSub(DateGetTime(credentials.expires_at), Num(t)), Num(0))
isTokenExpiredIfAbsent(credentials, t) ==
    IF ExpFalsy(OptExpiresAt(credentials)) THEN TRUE
    ELSE NumLess(NumSub(DateGetTime(credentials.expires_at), Num(t)), Num(bufferTime))

\* ----------------------------------------------------------- isTokenExpired
isTokenExpired(credentials, t) ==
    IF ExpFalsy(OptExpiresAt(credentials)) THEN FALSE
    ELSE LET expiresAt == DateGetTime(credentials.expires_at)
         IN NumLess(NumSub(expiresAt, Num(t)), Num(bufferTime))

\* ----------------------------------------------------- refreshTokenIfNeeded
\* credentials.credentials.access_token, without optional chaining.
AccessTokenOf(c) ==
    IF c.hasCredentials THEN Returned(c, c.access_token) ELSE Threw(ErrTypeError)

\* A variant of refreshTokenIfNeeded that fetches again when its first fetch
\* failed.
refreshTokenRetry(got, t) ==
    IF got.st = "threw" THEN Awaiting
    ELSE IF isTokenExpired(got.creds, t) THEN Awaiting
    ELSE AccessTokenOf(got.creds)

\* Variants of refreshTokenIfNeeded that the properties of the refresh must
\* tell from it: one that never fetches again, one that always does.
refreshTokenNeverAgain(got, t) ==
    IF got.st = "threw" THEN Threw(got.err) ELSE AccessTokenOf(got.creds)
refreshTokenAlwaysAgain(got, t) ==
    IF got.st = "threw" THEN Threw(got.err) ELSE Awaiting

\* refreshTokenIfNeeded once its first fetch has ended with `got`, at time t:
\* rethrows, goes on to the second fetch, or returns the first token.
refreshTokenIfNeeded(got, t) ==
    IF got.st = "threw" THEN Threw(got.err)
    ELSE IF isTokenExpired(got.creds, t) THEN Awaiting
    ELSE AccessTokenOf(got.creds)

\* refreshTokenIfNeeded once its second fetch has ended with `got`.
refreshTokenSecond(got) ==
    IF got.st = "threw" THEN Threw(got.err) ELSE AccessTokenOf(got.creds)

\* ------------------------------------------------------------- the broker
\* What the broker may hold for the connection.
BrokerCreds ==
    {NoBody} \cup
    {Body(TRUE, tok, exp) : tok \in {Undefined, "", Tokens[1]}, exp \in ExpVals}

\* The expiry date of a refreshed credential: already passed, or far enough.
RotDates == {T0 - 1, T0 + bufferTime + MaxTick + 1}

\* Honouring a fetch, the broker may refresh a credential that has an expiry
\* date: a new access token with a new expiry date.
BrokerAfter(b) ==
    {b} \cup
    IF b.cred.hasCredentials /\ ~Falsy(b.cred.access_token)
          /\ b.cred.expires_at.kind = "iso" /\ b.rot < MaxRot
    THEN {[cred |-> Body(TRUE, Tokens[b.rot + 2], ExpIso(t)), rot |-> b.rot + 1] :
             t \in RotDates}
    ELSE {}

\* What a fetch of the broker can come back with.
BrokerResponses(b) ==
    {NetworkFailure("ECONNREFUSED"),
     HttpResponse(401, "Unauthorized", "denied", NoBody),
     HttpResponse(500, "Internal Server Error", "oops", NoBody),
     HttpResponse(200, "OK", "", b.cred)}

\* ------------------------------------------------------- the remote API
\* What a request to the Todoist REST API can come back with.
RemoteResponses ==
    {NetworkFailure("ETIMEDOUT"),
     HttpResponse(200, "OK", "[]", NoBody),
     HttpResponse(401, "Unauthorized", "Forbidden", NoBody)}

\* ------------------------------------------------------------ tool handlers
BypassTools ==
    {"archiveProject", "unarchiveProject", "getSharedLabels",
     "renameSharedLabel", "removeSharedLabel"}

\* The arguments a tool is invoked with (after schema validation).
\* The handlers of the bypass-path tools destructure their parameters (a
\* missing one is undefined); createTask, updateTask, listComments and
\* createComment receive the parsed object `params`, whose optional keys may
\* be absent.
NoArgs == [projectId |-> Undefined, name |-> Undefined, newName |-> Undefined,
           omitPersonal |-> FALSE,
           taskId |-> Absent, content |-> Absent, description |-> Absent,
           dueString |-> Absent, dueDate |-> Absent, dueDatetime |-> Absent,
           dueLang |-> Absent, priority |-> Absent, order |-> Absent,
           labels |-> Absent, parentId |-> Absent, sectionId |-> Absent,
           assigneeId |-> Absent, label |-> Absent, filter |-> Absent,
           attachment |-> Absent]
ToolArgs(tool) ==
    CASE tool \in {"archiveProject", "unarchiveProject"} ->
           {[NoArgs EXCEPT !.projectId = "2203306141"]}
      [] tool = "getSharedLabels" ->
           {[NoArgs EXCEPT !.omitPersonal = b] : b \in BOOLEAN}
      [] tool = "renameSharedLabel" ->
           {[NoArgs EXCEPT !.name = "urgent", !.newName = "asap"]}
      [] OTHER -> {[NoArgs EXCEPT !.name = "urgent"]}

\* The direct request of a bypass-path tool under the Authorization header
\* auth.
DirectRequest(tool, a, auth) ==
    CASE tool = "archiveProject" ->
           Request("todoist", "POST",
                   <<"https://api.todoist.com/rest/v2/projects/", a.projectId, "/archive">>,
                   <<>>, auth, <<>>)
      [] tool = "unarchiveProject" ->
           Request("todoist", "POST",
                   <<"https://api.todoist.com/rest/v2/projects/", a.projectId, "/unarchive">>,
                   <<>>, auth, <<>>)
      [] tool = "getSharedLabels" ->
           Request("todoist", "GET",
                   <<"https://api.todoist.com/rest/v2/labels/shared">>,
                   IF a.omitPersonal THEN <<<<"omit_personal", "true">>>> ELSE <<>>,
                   auth, <<>>)
      [] tool = "renameSharedLabel" ->
           Request("todoist", "POST",
                   <<"https://api.todoist.com/rest/v2/labels/shared/rename">>,
                   <<>>, auth, <<<<"name", a.name>>, <<"new_name", a.newName>>>>)
      [] OTHER ->
           Request("todoist", "POST",
                   <<"https://api.todoist.com/rest/v2/labels/shared/remove">>,
                   <<>>, auth, <<<<"name", a.name>>>>)

\* A variant of RemoteRequest that sends the token the server got at startup
\* instead of the one just returned by refreshTokenIfNeeded.
RemoteRequestStartupToken(tool, a, accessToken) ==
    DirectRequest(tool, a, <<"Bearer ", TemplateString(todoistApi)>>)

\* The request a bypass-path tool sends once refreshTokenIfNeeded returned
\* accessToken: `Bearer ${accessToken}`.
RemoteRequest(tool, a, accessToken) ==
    DirectRequest(tool, a, <<"Bearer ", TemplateString(accessToken)>>)

\* --------------------------------------------------- the API-client tools
\* Tools that go through the client constructed at startup.  The remaining
\* tools of the server have the shape of getTask: one call of a client
\* method on the parameters as they are.
ClientTools ==
    {"listTasks", "getTask", "createTask", "updateTask", "listSections",
     "listComments", "createComment"}

\* An argument object is the sequence of its <<key, value>> pairs, in the
\* order of their first assignment.  obj[k] = v:
Put(obj, k, v) ==
    IF \E n \in DOMAIN obj : obj[n][1] = k
    THEN [n \in DOMAIN obj |-> IF obj[n][1] = k THEN <<k, v>> ELSE obj[n]]
    ELSE Append(obj, <<k, v>>)
\* if (params.k) obj.k = params.k, for one key and for a list of keys.
PutIf(obj, params, k) == IF Truthy(params[k]) THEN Put(obj, k, params[k]) ELSE obj
RECURSIVE PutAllIf(_, _, _)
PutAllIf(obj, params, keys) ==
    IF keys = <<>> THEN obj
    ELSE PutAllIf(PutIf(obj, params, Head(keys)), params, Tail(keys))

\* A variant of DueArgs that forwards every due representation it is given.
DueArgsMerged(obj, params) ==
    PutAllIf(obj, params, <<"dueString", "dueDate", "dueDatetime">>)

\* if (dueString) ... else if (dueDate) ... else if (dueDatetime) ...
DueArgs(obj, params) ==
    IF Truthy(params.dueString) THEN Put(obj, "dueString", params.dueString)
    ELSE IF Truthy(params.dueDate) THEN Put(obj, "dueDate", params.dueDate)
    ELSE IF Truthy(params.dueDatetime) THEN Put(obj, "dueDatetime", params.dueDatetime)
    ELSE obj

\* A variant of createTaskArgs that passes every field on, set or not.
createTaskArgsAll(params) ==
    [n \in 1 .. 11 |->
       LET k == <<"content", "projectId", "dueString", "priority", "labels",
                  "description", "order", "parentId", "sectionId", "assigneeId",
                  "dueLang">>[n]
       IN <<k, Get(params[k])>>]

\* taskArgs of createTask.
createTaskArgs(params) ==
    DueArgs(PutAllIf(<<<<"content", Get(params.content)>>>>, params,
                     <<"projectId", "dueString", "priority", "labels", "description",
                       "order", "parentId", "sectionId", "assigneeId", "dueLang">>),
            params)

\* A variant of updateTaskArgs that treats assigneeId like the other fields.
updateTaskArgsTruthy(params) ==
    DueArgs(PutAllIf(<<>>, params,
                     <<"content", "description", "labels", "priority", "assigneeId",
                       "dueLang">>),
            params)

\* taskArgs of updateTask.
updateTaskArgs(params) ==
    LET a1 == PutAllIf(<<>>, params, <<"content", "description", "labels", "priority">>)
        a2 == IF HasKey(params.assigneeId)
              THEN Put(a1, "assigneeId", Get(params.assigneeId)) ELSE a1
    IN DueArgs(PutIf(a2, params, "dueLang"), params)

\* params of listTasks.
listTasksParams(params) == PutAllIf(<<>>, params, <<"projectId", "label", "filter">>)

\* The argument of getComments, and commentArgs of createComment.
listCommentsArgs(params) ==
    IF Truthy(params.taskId) THEN <<<<"taskId", params.taskId>>>>
    ELSE IF Truthy(params.projectId) THEN <<<<"projectId", params.projectId>>>>
    ELSE <<>>
\* (a variant of createCommentArgs that forwards both identifiers)
createCommentArgsBoth(params) ==
    PutAllIf(<<<<"content", Get(params.content)>>>>, params,
             <<"taskId", "projectId", "attachment">>)
createCommentArgs(params) ==
    LET a1 == <<<<"content", Get(params.content)>>>>
        a2 == IF Truthy(params.taskId) THEN Put(a1, "taskId", params.taskId)
              ELSE IF Truthy(params.projectId) THEN Put(a1, "projectId", params.projectId)
              ELSE a1
    IN PutIf(a2, params, "attachment")

\* A variant of the check below that takes only a missing key for missing.
MissingIdentifierKey(params) == params.taskId = Absent /\ params.projectId = Absent
\* if (!params.taskId && !params.projectId)
MissingIdentifier(params) == ~Truthy(params.taskId) /\ ~Truthy(params.projectId)

\* A call of a method of the API client: one request to the remote API under
\* the token the client was constructed with.  `url` holds the positional
\* argument of the method, `body` its argument object.
ApiCall(method, id, obj, api) ==
    Request("todoist", method, id, <<>>, <<"Bearer ", TemplateString(api)>>, obj)

\* What a handler of an API-client tool does up to its first await or its
\* return: it calls a method of the client, or returns a result at once.
Calls(req) == [kind |-> "call", req |-> req, isError |-> FALSE, text |-> <<>>]
Returns(isError, text) ==
    [kind |-> "return", req |-> Request("", "", <<>>, <<>>, <<>>, <<>>),
     isError |-> isError, text |-> text]
ClientStep(tool, a, api) ==
    CASE tool = "listTasks" -> Calls(ApiCall("getTasks", <<>>, listTasksParams(a), api))
      [] tool = "getTask" -> Calls(ApiCall("getTask", <<Get(a.taskId)>>, <<>>, api))
      [] tool = "createTask" -> Calls(ApiCall("addTask", <<>>, createTaskArgs(a), api))
      [] tool = "updateTask" ->
           Calls(ApiCall("updateTask", <<Get(a.taskId)>>, updateTaskArgs(a), api))
      [] tool = "listSections" ->
           IF Truthy(a.projectId)
           THEN Calls(ApiCall("getSections", <<>>, <<<<"projectId", a.projectId>>>>, api))
           ELSE Returns(FALSE, <<"{sections:[]}">>)
      [] tool = "listComments" ->
           IF MissingIdentifier(a)
           THEN Returns(TRUE, <<"Either taskId or projectId is required">>)
           ELSE Calls(ApiCall("getComments", <<>>, listCommentsArgs(a), api))
      [] OTHER ->
           IF MissingIdentifier(a)
           THEN Returns(TRUE, <<"Either taskId or projectId is required">>)
           ELSE Calls(ApiCall("addComment", <<>>, createCommentArgs(a), api))

\* The parameters the API-client tools are invoked with (after schema
\* validation): each optional one absent, empty or zero, or with a value.
Opt(v) == {Absent, "", v}
TaskProfiles ==
    LET none == [projectId |-> Absent, priority |-> Absent, labels |-> Absent,
                 description |-> Absent, order |-> Absent, parentId |-> Absent,
                 sectionId |-> Absent, assigneeId |-> Absent, dueLang |-> Absent,
                 content |-> "Buy milk"]
        full == [projectId |-> "2203306141", priority |-> "#4", labels |-> "[urgent]",
                 description |-> "2 litres", order |-> "#3", parentId |-> "7000",
                 sectionId |-> "61", assigneeId |-> "user-1", dueLang |-> "en",
                 content |-> "Buy milk"]
        falsy == [projectId |-> "", priority |-> Zero, labels |-> "[]",
                  description |-> "", order |-> Zero, parentId |-> "",
                  sectionId |-> "", assigneeId |-> "", dueLang |-> "",
                  content |-> ""]
    IN {none, full, falsy} \cup
       {[none EXCEPT ![k] = full[k]] : k \in DOMAIN none} \cup
       {[none EXCEPT ![k] = falsy[k]] : k \in DOMAIN none \ {"content"}} \cup
       {[none EXCEPT !.assigneeId = v] : v \in {Undefined, Null}}
TaskParams(o, ds, dd, dt) ==
    [NoArgs EXCEPT !.projectId = o.projectId, !.priority = o.priority,
                   !.labels = o.labels, !.description = o.description,
                   !.order = o.order, !.parentId = o.parentId,
                   !.sectionId = o.sectionId, !.assigneeId = o.assigneeId,
                   !.dueLang = o.dueLang, !.content = o.content,
                   !.dueString = ds, !.dueDate = dd, !.dueDatetime = dt]
\* The three due representations in every combination, with none, all or
\* only falsy other fields; the other profiles without a due date.
TaskInputs ==
    {<<o, ds, dd, dt>> :
       o \in {q \in TaskProfiles :
                \/ (\A k \in DOMAIN q \ {"content"} : q[k] = Absent)
                \/ (\A k \in DOMAIN q : q[k] # Absent)},
       ds \in Opt("today"), dd \in Opt("2030-01-01"),
       dt \in Opt("2030-01-01T09:00:00Z")}
    \cup {<<o, Absent, Absent, Absent>> : o \in TaskProfiles}
ToolParams(tool) ==
    CASE tool = "listTasks" ->
           {[NoArgs EXCEPT !.projectId = pr, !.label = l, !.filter = f] :
              pr \in {Undefined, "", "2203306141"}, l \in {Undefined, "urgent"},
              f \in {Undefined, "today"}}
      [] tool = "getTask" -> {[NoArgs EXCEPT !.taskId = "7001"]}
      [] tool = "createTask" ->
           {TaskParams(x[1], x[2], x[3], x[4]) :
              x \in {y \in TaskInputs : y[1].content = "Buy milk"}}
      [] tool = "updateTask" ->
           {[TaskParams(x[1], x[2], x[3], x[4]) EXCEPT
               !.taskId = "7001",
               !.content = IF x[1].content = "Buy milk" /\ x[1].description = Absent
                           THEN Absent ELSE x[1].content] :
              x \in TaskInputs}
      [] tool = "listSections" ->
           {[NoArgs EXCEPT !.projectId = pr] : pr \in {Undefined, "", "2203306141"}}
      [] tool = "listComments" ->
           {[NoArgs EXCEPT !.taskId = t, !.projectId = pr] :
              t \in Opt("7001"), pr \in Opt("2203306141")}
      [] OTHER ->
           {[NoArgs EXCEPT !.content = "Done", !.taskId = t, !.projectId = pr,
                           !.attachment = at] :
              t \in Opt("7001"), pr \in Opt("2203306141"),
              at \in {Absent, "{fileUrl:https://files.example/a.pdf}"}}
\* The API-client invocations that run next to the bypass-path tools.
ServerClientTools == {"listTasks"}
ServerParams(tool) == {[NoArgs EXCEPT !.projectId = "2203306141"]}

\* The handler's result: { content: [{ type: "text", text }], isError }.
NoResult == [isError |-> FALSE, text |-> <<>>]
FailureText(tool) ==
    CASE tool = "archiveProject" -> "Failed to archive project"
      [] tool = "unarchiveProject" -> "Failed to unarchive project"
      [] tool = "getSharedLabels" -> "Failed to get shared labels"
      [] tool = "renameSharedLabel" -> "Failed to rename shared label"
      [] tool = "listTasks" -> "Failed to fetch tasks"
      [] tool = "getTask" -> "Failed to fetch task"
      [] tool = "createTask" -> "Failed to create task"
      [] tool = "updateTask" -> "Failed to update task"
      [] tool = "listSections" -> "Failed to fetch sections"
      [] tool = "listComments" -> "Failed to fetch comments"
      [] tool = "createComment" -> "Failed to create comment"
      [] OTHER -> "Failed to remove shared label"
\* A variant of ToolFailure that adds the token of the API client to the text.
ToolFailureWithToken(tool) ==
    [isError |-> TRUE, text |-> <<FailureText(tool), ": ", TemplateString(todoistApi)>>]
ToolFailure(tool) == [isError |-> TRUE, text |-> <<FailureText(tool)>>]
\* The key under which a handler returns what the client method resolved to.
ResultKey(tool) ==
    CASE tool = "listTasks" -> "tasks"
      [] tool \in {"getTask", "createTask"} -> "task"
      [] tool = "updateTask" -> "success"
      [] tool = "listSections" -> "sections"
      [] tool = "listComments" -> "comments"
      [] tool = "createComment" -> "comment"
      [] OTHER -> "labels"
\* JSON.stringify({ success: true }), or of the object that holds what the
\* remote API answered.
ToolSuccess(tool, resp) ==
    [isError |-> FALSE,
     text |-> IF tool = "getSharedLabels" \/ tool \in ClientTools
              THEN <<"{", ResultKey(tool), ":", resp.text, "}">>
              ELSE <<"{success:true}">>]

\* A variant of ToolResult that looks at rejected fetches only, not at the
\* status of the response.
ToolResultAnyStatus(tool, resp) ==
    IF resp.kind = "fail" THEN ToolFailure(tool) ELSE ToolSuccess(tool, resp)

\* The handler once the remote request has ended with resp: a rejected
\* fetch and a response that is not ok both end in the catch.
ToolResult(tool, resp) ==
    IF resp.kind = "fail" \/ ~ResponseOk(resp) THEN ToolFailure(tool)
    ELSE ToolSuccess(tool, resp)

\* ----------------------------------------------------------- call frames
NotYet == [st |-> "none", creds |-> NoBody, val |-> Undefined, err |-> NoErr]
\* op: the operation; args: its arguments; pc: where it stands; reqs: the
\* requests it has sent; r1, r2: the responses to its first and second
\* broker request (in a tool's frame r1 is the response to its remote
\* request); f1, f2: how its first and second
\* getConnectionCredentials ended; evald, expired, te: whether
\* isTokenExpired was consulted, its answer, and when; end: how the
\* exported function ended; t0, t1: the time it was called and ended;
\* res: the tool handler's result.
Frame0 ==
    [op |-> "none", args |-> NoArgs, pc |-> "idle", reqs |-> <<>>,
     r1 |-> NoResponse, r2 |-> NoResponse,
     f1 |-> NotYet, f2 |-> NotYet,
     evald |-> FALSE, expired |-> FALSE, te |-> 0,
     end |-> NotYet, t0 |-> 0, t1 |-> 0, res |-> NoResult]
WireIdle == [stage |-> "idle", to |-> "", resp |-> NoResponse]
WireSent(to) == [stage |-> "sent", to |-> to, resp |-> NoResponse]

\* The exported functions that fetch.
LibraryOps == {"getConnectionCredentials", "getAccessToken", "refreshTokenIfNeeded"}

\* What the operation does when its first getConnectionCredentials has
\* ended with `got`: initializeTodoistApi calls getAccessToken, the
\* bypass-path tools call refreshTokenIfNeeded.
AfterFirst(op, got, t) ==
    CASE op = "getConnectionCredentials" -> got
      [] op \in {"getAccessToken", "initializeTodoistApi"} -> getAccessToken(got)
      [] OTHER -> refreshTokenIfNeeded(got, t)

\* The frames of the client's calls and of main() also record what the
\* call went through; a tool invocation's frame holds the requests it sent,
\* how refreshTokenIfNeeded ended, and its result.
Recorded(op) == op \notin BypassTools \cup ClientTools

\* refreshTokenIfNeeded consults isTokenExpired once its first fetch returned.
Evaluated(op, got) == op = "refreshTokenIfNeeded" /\ got.st = "returned"

\* What the client keeps of the call that just ended.
Keep(f) == IF f.op = "refreshTokenIfNeeded" THEN f ELSE Frame0

Finish(f, end, t) ==
    [f EXCEPT !.pc = "done", !.end = end, !.t1 = IF Recorded(f.op) THEN t ELSE 0]

InitCommon ==
    /\ env \in [NANGO_CONNECTION_ID : EnvVals("conn-1"),
                NANGO_INTEGRATION_ID : EnvVals("todoist"),
                NANGO_BASE_URL : EnvVals("https://api.nango.dev"),
                NANGO_SECRET_KEY : EnvVals("nango-secret")]
    /\ now = T0
    /\ ncalls = 0
    /\ prev = Frame0
    \* With a variable missing no request is ever sent, and what the broker
    \* holds cannot show.
    /\ broker \in {[cred |-> c, rot |-> 0] :
                     c \in IF EnvMissing(env) THEN {NoBody} ELSE BrokerCreds}
    /\ todoistApi = Undefined
    /\ inv = [i \in Slots |-> Frame0]
    /\ wire = [i \in Slots |-> WireIdle]

\* ---------------------------------------------------------------- launcher
\* The launcher script: pc is where it stands ("check" before the test for
\* dist/server.js, "building" while its build runs, "running" once it has
\* spawned the server, "exited" after process.exit); existed is what the test
\* found, dist whether the file exists now; builds counts the builds it
\* spawned, built is how the build ended ("0", "1", "signal", "error", or
\* "none"); started tells whether it has spawned the server; status is its
\* exit status.
Launcher0(d) ==
    [pc |-> "check", existed |-> d, dist |-> d, builds |-> 0, built |-> "none",
     started |-> FALSE, status |-> "none"]
\* The server started without the launcher (node dist/server.js).
NoLauncher ==
    [pc |-> "none", existed |-> TRUE, dist |-> TRUE, builds |-> 0, built |-> "none",
     started |-> FALSE, status |-> "none"]
\* The exit codes the 'exit' event of the build can carry: a code, or null
\* after a signal.
BuildCodes == {"0", "1", "signal"}

\* function startServer(): spawn('node', [serverPath]).
startServer(l) == [l EXCEPT !.pc = "running", !.started = TRUE]
\* process.exit(1)
LauncherExit(l, code) == [l EXCEPT !.pc = "exited", !.status = code]

\* if (!fs.existsSync(serverPath)) { spawn('npm', ['run', 'build']) ... }
\* else { startServer() }
LauncherCheck ==
    /\ launcher.pc = "check"
    /\ launcher' = IF ~launcher.existed
                   THEN [launcher EXCEPT !.pc = "building", !.builds = @ + 1]
                   ELSE startServer(launcher)
    /\ UNCHANGED <<env, now, ncalls, prev, broker, phase, todoistApi, inv, wire>>

\* A variant of BuildExit that starts the server whatever the build's code.
BuildExitAnyCode(code) ==
    /\ launcher.pc = "building"
    /\ \E d \in {launcher.dist, code = "0"} :
         launcher' = startServer([launcher EXCEPT !.built = code, !.dist = d])
    /\ UNCHANGED <<env, now, ncalls, prev, broker, phase, todoistApi, inv, wire>>

\* buildProcess.on('exit', (code) => ...): a build that ended with code 0 may
\* or may not have written dist/server.js; the launcher does not look again.
BuildExit(code) ==
    /\ launcher.pc = "building"
    /\ IF code = "0"
       THEN \E d \in BOOLEAN :
              launcher' = startServer([launcher EXCEPT !.built = code, !.dist = d])
       ELSE launcher' = LauncherExit([launcher EXCEPT !.built = code], "1")
    /\ UNCHANGED <<env, now, ncalls, prev, broker, phase, todoistApi, inv, wire>>

\* buildProcess.on('error', ...): the build could not be spawned.
BuildError ==
    /\ launcher.pc = "building"
    /\ launcher' = LauncherExit([launcher EXCEPT !.built = "error"], "1")
    /\ UNCHANGED <<env, now, ncalls, prev, broker, phase, todoistApi, inv, wire>>

\* server.on('error', ...): node could not be spawned.
ServerError ==
    /\ launcher.pc = "running"
    /\ phase = "starting" /\ inv[Main].pc = "idle"
    /\ launcher' = LauncherExit(launcher, "1")
    /\ UNCHANGED <<env, now, ncalls, prev, broker, phase, todoistApi, inv, wire>>

\* node finds no dist/server.js to run and exits with code 1.
ServerLoadFails ==
    /\ launcher.pc = "running" /\ ~launcher.dist
    /\ phase = "starting"
    /\ phase' = "exited"
    /\ UNCHANGED <<launcher, env, now, ncalls, prev, broker, todoistApi, inv, wire>>

\* server.on('exit', (code) => process.exit(code)): the server ends with
\* code 1, from process.exit(1) or from node.
ServerExit ==
    /\ launcher.pc = "running"
    /\ phase = "exited"
    /\ launcher' = LauncherExit(launcher, "1")
    /\ UNCHANGED <<env, now, ncalls, prev, broker, phase, todoistApi, inv, wire>>

\* The exported functions of nango-auth.ts under a client.
Init == InitCommon /\ phase = "off" /\ launcher = NoLauncher

\* The server process at its start.
InitServer ==
    /\ InitCommon
    /\ phase = "starting"
    /\ launcher = NoLauncher
    \* (the clock of the server stands still: one expiry date that has
    \* passed and one that has not, next to no date at all)
    /\ broker.cred.expires_at \in {ExpAbsent, ExpIso(T0 - 1), ExpIso(T0 + bufferTime)}

\* A variant of Complete in which a bypass-path tool stores the token it got
\* in the API client.
CompleteAssigning(i, g, end) ==
    IF g.op = "initializeTodoistApi"
    THEN /\ inv' = [inv EXCEPT ![i] = Finish(g, end, now)]
         /\ wire' = [wire EXCEPT ![i] = WireIdle]
         /\ IF end.st = "returned"
            THEN todoistApi' = end.val /\ phase' = "serving"
            ELSE todoistApi' = todoistApi /\ phase' = "exited"
    ELSE IF g.op \in BypassTools
    THEN /\ IF end.st = "returned"
            THEN /\ inv' = [inv EXCEPT ![i] =
                              [g EXCEPT !.pc = "remote",
                                        \* the handler keeps the token only
                                        !.end = Returned(NoBody, end.val),
                                        !.reqs = Append(@, RemoteRequest(g.op, g.args, end.val))]]
                 /\ wire' = [wire EXCEPT ![i] = WireSent("todoist")]
                 /\ todoistApi' = end.val
            ELSE /\ inv' = [inv EXCEPT ![i] =
                              Finish([g EXCEPT !.res = ToolFailure(g.op)], end, now)]
                 /\ wire' = [wire EXCEPT ![i] = WireIdle]
                 /\ todoistApi' = todoistApi
         /\ phase' = phase
    ELSE /\ inv' = [inv EXCEPT ![i] = Finish(g, end, now)]
         /\ wire' = [wire EXCEPT ![i] = WireIdle]
         /\ UNCHANGED <<phase, todoistApi>>

\* The exported function of frame g has ended with `end`; the code that
\* awaited it goes on.  A library call is over.  initializeTodoistApi
\* constructs the client and main() connects the transport, or the process
\* exits with status 1.  A bypass-path tool sends its request with the
\* token returned, or returns its failure result from the catch.
Complete(i, g, end) ==
    IF g.op = "initializeTodoistApi"
    THEN /\ inv' = [inv EXCEPT ![i] = Finish(g, end, now)]
         /\ wire' = [wire EXCEPT ![i] = WireIdle]
         /\ IF end.st = "returned"
            THEN todoistApi' = end.val /\ phase' = "serving"
            ELSE todoistApi' = todoistApi /\ phase' = "exited"
    ELSE IF g.op \in BypassTools
    THEN /\ IF end.st = "returned"
            THEN /\ inv' = [inv EXCEPT ![i] =
                              [g EXCEPT !.pc = "remote",
                                        \* the handler keeps the token only
                                        !.end = Returned(NoBody, end.val),
                                        !.reqs = Append(@, RemoteRequest(g.op, g.args, end.val))]]
                 /\ wire' = [wire EXCEPT ![i] = WireSent("todoist")]
            ELSE /\ inv' = [inv EXCEPT ![i] =
                              Finish([g EXCEPT !.res = ToolFailure(g.op)], end, now)]
                 /\ wire' = [wire EXCEPT ![i] = WireIdle]
         /\ UNCHANGED <<phase, todoistApi>>
    ELSE /\ inv' = [inv EXCEPT ![i] = Finish(g, end, now)]
         /\ wire' = [wire EXCEPT ![i] = WireIdle]
         /\ UNCHANGED <<phase, todoistApi>>

\* The start of an operation in frame f: it runs up to its first await, the
\* fetch of getConnectionCredentials, or to the throw before it.
Begin(i, f) ==
    LET got == getConnectionCredentials(env, NoResponse)
    IN IF EnvMissing(env)
       THEN Complete(i, [f EXCEPT !.f1 = IF Recorded(f.op) THEN got ELSE NotYet],
                     AfterFirst(f.op, got, now))
       ELSE /\ inv' = [inv EXCEPT ![i] =
                         [f EXCEPT !.pc = "fetch1",
                                   !.reqs = Append(@, BrokerRequest(env))]]
            /\ wire' = [wire EXCEPT ![i] = WireSent("broker")]
            /\ UNCHANGED <<phase, todoistApi>>

\* The client calls an exported function that fetches, its previous call
\* having ended.
Call(op) ==
    /\ phase = "off"
    /\ inv[Main].pc \in {"idle", "done"}
    /\ ncalls < MaxCalls
    /\ ncalls' = ncalls + 1
    /\ prev' = Keep(inv[Main])
    /\ Begin(Main, [Frame0 EXCEPT !.op = op, !.t0 = now])
    /\ UNCHANGED <<launcher, env, now, broker>>

\* The client calls isTokenExpired on credentials of its choosing.
CallIsTokenExpired(c) ==
    /\ phase = "off"
    /\ inv[Main].pc \in {"idle", "done"}
    /\ ncalls < MaxCalls
    /\ ncalls' = ncalls + 1
    /\ prev' = Keep(inv[Main])
    /\ inv' = [inv EXCEPT ![Main] =
                 Finish([Frame0 EXCEPT !.op = "isTokenExpired", !.t0 = now,
                                       !.f1 = Returned(c, Undefined),
                                       !.evald = TRUE, !.te = now,
                                       !.expired = isTokenExpired(c, now)],
                        Returned(c, Undefined), now)]
    /\ UNCHANGED <<launcher, env, now, broker, phase, todoistApi, wire>>

\* main(): initializeTodoistApi() calls getAccessToken().
Startup ==
    /\ phase = "starting"
    /\ launcher.pc \in {"none", "running"} /\ launcher.dist
    /\ inv[Main].pc = "idle"
    /\ Begin(Main, [Frame0 EXCEPT !.op = "initializeTodoistApi", !.t0 = now])
    /\ UNCHANGED <<launcher, env, now, ncalls, prev, broker>>

\* The connected server dispatches a tool invocation to its handler.
ToolCall(i, tool, a) ==
    /\ phase = "serving"
    /\ inv[i].pc \in {"idle", "done"}
    /\ i = "a" \/ inv["a"].pc \notin {"idle", "done"}
    /\ ncalls < MaxCalls
    /\ ncalls' = ncalls + 1
    /\ Begin(i, [Frame0 EXCEPT !.op = tool, !.args = a])
    /\ UNCHANGED <<launcher, env, now, prev, broker>>

\* The connected server dispatches an invocation of an API-client tool: the
\* handler runs up to the call of the client method, or to its return.
ClientToolCall(i, tool, a) ==
    /\ phase = "serving"
    /\ inv[i].pc \in {"idle", "done"}
    /\ i = "a" \/ inv["a"].pc \notin {"idle", "done"}
    /\ ncalls < MaxCalls
    /\ ncalls' = ncalls + 1
    /\ LET step == ClientStep(tool, a, todoistApi)
           f == [Frame0 EXCEPT !.op = tool, !.args = a]
       IN IF step.kind = "call"
          THEN /\ inv' = [inv EXCEPT ![i] =
                            [f EXCEPT !.pc = "remote", !.reqs = <<step.req>>]]
               /\ wire' = [wire EXCEPT ![i] = WireSent("todoist")]
          ELSE /\ inv' = [inv EXCEPT ![i] =
                            [f EXCEPT !.pc = "done",
                                      !.res = [isError |-> step.isError,
                                               text |-> step.text]]]
               /\ wire' = wire
    /\ UNCHANGED <<launcher, env, now, prev, broker, phase, todoistApi>>

\* The connection the broker holds is changed at the broker while the server
\* runs: its credential loses the access token, or is removed.
BrokerChange ==
    /\ phase = "serving"
    /\ \E c \in {Body(TRUE, Undefined, ExpAbsent), Body(TRUE, "", ExpAbsent), NoBody} :
         /\ c # broker.cred
         /\ broker' = [broker EXCEPT !.cred = c]
    /\ UNCHANGED <<launcher, env, now, ncalls, prev, phase, todoistApi, inv, wire>>

\* The broker, or the network, answers a request in flight.
BrokerHandle(i) ==
    /\ phase # "exited"
    /\ wire[i].stage = "sent" /\ wire[i].to = "broker"
    /\ \E b \in BrokerAfter(broker) :
         /\ broker' = b
         /\ \E r \in BrokerResponses(b) :
              wire' = [wire EXCEPT ![i] = [@ EXCEPT !.stage = "answered", !.resp = r]]
    /\ UNCHANGED <<launcher, env, now, ncalls, prev, phase, todoistApi, inv>>

\* What the frame records of a fetch that ended with `got`.
Note1(f, resp, got, t) ==
    IF Recorded(f.op)
    THEN [f EXCEPT !.r1 = resp, !.f1 = got,
                   !.evald = Evaluated(f.op, got),
                   !.te = IF Evaluated(f.op, got) THEN t ELSE 0,
                   !.expired = Evaluated(f.op, got) /\ isTokenExpired(got.creds, t)]
    ELSE f
Note2(f, resp, got) ==
    IF Recorded(f.op) THEN [f EXCEPT !.r2 = resp, !.f2 = got] ELSE f

\* A broker response reaches the awaiting call, which runs to its next
\* await or to its end.
Deliver(i) ==
    /\ phase # "exited"
    /\ wire[i].stage = "answered" /\ wire[i].to = "broker"
    /\ LET f == inv[i]
           got == getConnectionCredentials(env, wire[i].resp)
       IN IF f.pc = "fetch1"
          THEN LET end == AfterFirst(f.op, got, now)
                   g == Note1(f, wire[i].resp, got, now)
               IN IF end.st = "await"
                  THEN IF EnvMissing(env)
                       THEN Complete(i, Note2(g, NoResponse, Threw(ErrMissingEnv)),
                                     refreshTokenSecond(Threw(ErrMissingEnv)))
                       ELSE /\ inv' = [inv EXCEPT ![i] =
                                         [g EXCEPT !.pc = "fetch2",
                                                   !.reqs = Append(@, BrokerRequest(env))]]
                            /\ wire' = [wire EXCEPT ![i] = WireSent("broker")]
                            /\ UNCHANGED <<phase, todoistApi>>
                  ELSE Complete(i, g, end)
          ELSE Complete(i, Note2(f, wire[i].resp, got), refreshTokenSecond(got))
    /\ UNCHANGED <<launcher, env, now, ncalls, prev, broker>>

\* A variant of DeliverRemote in which a handler resumes only while no other
\* invocation is in flight.
DeliverRemoteSerial(i) ==
    /\ phase # "exited"
    /\ wire[i].stage = "sent" /\ wire[i].to = "todoist"
    /\ \A j \in Inv \ {i} : inv[j].pc \in {"idle", "done"}
    /\ \E r \in RemoteResponses :
         inv' = [inv EXCEPT ![i] =
                   [inv[i] EXCEPT !.pc = "done", !.r1 = r,
                                  !.res = ToolResult(inv[i].op, r)]]
    /\ wire' = [wire EXCEPT ![i] = WireIdle]
    /\ UNCHANGED <<launcher, env, now, ncalls, prev, broker, phase, todoistApi>>

\* The remote API, or the network, answers the request in flight of a tool
\* handler, which builds its result from the answer.
DeliverRemote(i) ==
    /\ phase # "exited"
    /\ wire[i].stage = "sent" /\ wire[i].to = "todoist"
    /\ \E r \in RemoteResponses :
         inv' = [inv EXCEPT ![i] =
                   [inv[i] EXCEPT !.pc = "done", !.r1 = r,
                                  !.res = ToolResult(inv[i].op, r)]]
    /\ wire' = [wire EXCEPT ![i] = WireIdle]
    /\ UNCHANGED <<launcher, env, now, ncalls, prev, broker, phase, todoistApi>>

\* Time passes.
Tick ==
    /\ phase # "exited"
    /\ now < T0 + MaxTick
    /\ now' = now + 1
    /\ UNCHANGED <<launcher, env, ncalls, prev, broker, phase, todoistApi, inv, wire>>

Next ==
    \/ \E op \in LibraryOps : Call(op)
    \/ \E c \in {Body(TRUE, Tokens[1], e) : e \in ExpInputs(now)} \cup {NoBody} :
         CallIsTokenExpired(c)
    \/ BrokerHandle(Main)
    \/ Deliver(Main)
    \/ Tick

Spec == Init /\ [][Next]_vars

NextServer ==
    \/ Startup
    \/ \E i \in Inv, tool \in BypassTools : \E a \in ToolArgs(tool) : ToolCall(i, tool, a)
    \/ \E i \in Inv, tool \in ServerClientTools :
         \E a \in ServerParams(tool) : ClientToolCall(i, tool, a)
    \/ \E i \in Slots : BrokerHandle(i)
    \/ \E i \in Slots : Deliver(i)
    \/ \E i \in Inv : DeliverRemote(i)

SpecServer == InitServer /\ [][NextServer]_vars

\* The server when every network call is resolved in the end and the event
\* loop runs every continuation that is ready: main() is run, every request in
\* flight is answered (by a response or a failure) and every answer is
\* delivered to the code that awaits it.
Fairness ==
    /\ WF_vars(Startup)
    /\ \A i \in Slots : WF_vars(BrokerHandle(i)) /\ WF_vars(Deliver(i))
    /\ \A i \in Inv : WF_vars(DeliverRemote(i))
\* (with a broker that holds no credential, or one that has expired and may
\* be refreshed)
InitLive ==
    /\ InitServer
    /\ broker.cred \in {NoBody, Body(TRUE, Tokens[1], ExpIso(T0 - 1))}
\* (and a client that invokes one tool of each kind)
NextLive ==
    \/ Startup
    \/ \E i \in Inv : \E a \in ToolArgs("archiveProject") : ToolCall(i, "archiveProject", a)
    \/ \E i \in Inv : \E a \in ServerParams("listTasks") : ClientToolCall(i, "listTasks", a)
    \/ \E i \in Slots : BrokerHandle(i)
    \/ \E i \in Slots : Deliver(i)
    \/ \E i \in Inv : DeliverRemote(i)
SpecLive == InitLive /\ [][NextLive]_vars /\ Fairness

\* The launcher and the server it spawns, up to the server's serving state.
NextLauncher ==
    \/ LauncherCheck
    \/ \E code \in BuildCodes : BuildExit(code)
    \/ BuildError
    \/ ServerError
    \/ ServerLoadFails
    \/ ServerExit
    \/ Startup
    \/ BrokerHandle(Main)
    \/ Deliver(Main)
InitLauncher ==
    /\ InitCommon
    /\ phase = "starting"
    /\ broker.cred \in {NoBody, Body(TRUE, Tokens[1], ExpAbsent)}
    /\ launcher \in {Launcher0(d) : d \in BOOLEAN}
SpecLauncher == InitLauncher /\ [][NextLauncher]_vars

\* The server next to a broker whose connection may change under it.
NextChanging ==
    \/ Startup
    \/ \E i \in Inv : \E a \in ToolArgs("archiveProject") : ToolCall(i, "archiveProject", a)
    \/ BrokerChange
    \/ \E i \in Slots : BrokerHandle(i)
    \/ \E i \in Slots : Deliver(i)
    \/ \E i \in Inv : DeliverRemote(i)
InitChanging ==
    /\ InitServer
    /\ ~EnvMissing(env)
    /\ broker.cred \in {Body(TRUE, Tokens[1], ExpAbsent), Body(TRUE, Tokens[1], ExpIso(T0 - 1))}
SpecChanging == InitChanging /\ [][NextChanging]_vars

\* The server under a client that invokes the API-client tools one at a time,
\* with every shape of parameters.
NextTools ==
    \/ Startup
    \/ BrokerHandle(Main)
    \/ Deliver(Main)
    \/ \E tool \in ClientTools : \E a \in ToolParams(tool) : ClientToolCall("a", tool, a)
    \/ DeliverRemote("a")

\* main() not yet run, with a complete configuration and a broker that holds
\* a credential, or none.
InitTools ==
    /\ InitServer
    /\ ~EnvMissing(env)
    /\ broker.cred \in {Body(TRUE, Tokens[1], ExpAbsent), NoBody}

SpecTools == InitTools /\ [][NextTools]_vars

\* ================================================================ properties
\* The client's current call and the one before it.
Cur == inv[Main]
Prv == prev
IsRefresh(f) == f.op = "refreshTokenIfNeeded"
\* The access token in the body a fetch returned.
TokenIn(got) == got.creds.access_token
HasCreds(got) == got.st = "returned" /\ got.creds.hasCredentials
\* The number of requests of reqs that go to the broker asking for a refresh.
AsksRefresh(r) ==
    r.to = "broker" /\ \E q \in DOMAIN r.query : r.query[q] = <<"refresh_token", "true">>
RefreshAsking(reqs) == Cardinality({k \in DOMAIN reqs : AsksRefresh(reqs[k])})

\* C1: refreshTokenIfNeeded first fetches the credentials once; if
\* isTokenExpired is false for them it returns the access token of that
\* fetch having sent exactly 1 request; if it is true it fetches exactly once
\* more and returns the access token of the second response (exactly 2
\* requests).
C1_RefreshFetches ==
    IsRefresh(Cur) =>
      /\ \A k \in DOMAIN Cur.reqs : Cur.reqs[k] = BrokerRequest(env)
      /\ Cur.pc = "fetch1" => Len(Cur.reqs) = 1 /\ ~Cur.evald
      /\ Cur.pc = "fetch2" => Len(Cur.reqs) = 2 /\ Cur.evald /\ Cur.expired
      /\ (Cur.pc = "done" /\ Cur.evald /\ ~Cur.expired) =>
            /\ Len(Cur.reqs) = 1
            /\ Cur.f2 = NotYet
            /\ HasCreds(Cur.f1) => Cur.end = Returned(Cur.f1.creds, TokenIn(Cur.f1))
      /\ (Cur.pc = "done" /\ Cur.evald /\ Cur.expired) =>
            /\ Len(Cur.reqs) = 2
            /\ Cur.f2.st \in {"returned", "threw"}
            /\ HasCreds(Cur.f2) => Cur.end = Returned(Cur.f2.creds, TokenIn(Cur.f2))
            /\ Cur.f2.st = "threw" => Cur.end = Threw(Cur.f2.err)
\* A first call found the credentials not expired and returned their token
\* after one request; the next found them expired, fetched again and returned
\* the new token of the second response.
C1_Witness ==
    /\ IsRefresh(Prv) /\ Prv.pc = "done" /\ Prv.evald /\ ~Prv.expired
    /\ Len(Prv.reqs) = 1 /\ Prv.end.st = "returned" /\ Prv.end.val = Tokens[1]
    /\ IsRefresh(Cur) /\ Cur.pc = "done" /\ Cur.evald /\ Cur.expired
    /\ Len(Cur.reqs) = 2 /\ HasCreds(Cur.f2)
    /\ TokenIn(Cur.f1) = Tokens[1] /\ TokenIn(Cur.f2) = Tokens[2]
    /\ Cur.end.st = "returned" /\ Cur.end.val = Tokens[2]

\* C2: whenever refreshTokenIfNeeded returns a token, isTokenExpired is false,
\* at the moment of the return, for the credentials the token was taken from,
\* whatever the broker answered.
C2_ReturnedNotExpired ==
    (IsRefresh(Cur) /\ Cur.pc = "done" /\ Cur.end.st = "returned" /\ ~Falsy(Cur.end.val))
      => ~isTokenExpired(Cur.end.creds, Cur.t1)

\* Two calls of refreshTokenIfNeeded in immediate succession that both
\* returned, no time having passed from the start of the first to the end of
\* the second, the broker holding a credential without expiry date.
C3_Case ==
    /\ IsRefresh(Prv) /\ Prv.pc = "done" /\ Prv.end.st = "returned"
    /\ IsRefresh(Cur) /\ Cur.pc = "done" /\ Cur.end.st = "returned"
    /\ Prv.t0 = Cur.t1
    /\ broker.cred.hasCredentials /\ broker.cred.expires_at = ExpAbsent
\* C3 as stated: the two calls return the identical token, and together they
\* send no more refresh-asking broker requests than the one a single fetch
\* needs.
C3_NoMoreThanOneFetch ==
    C3_Case =>
      /\ Cur.end.val = Prv.end.val
      /\ RefreshAsking(Prv.reqs) + RefreshAsking(Cur.reqs) <= 1
\* C3, amended: the two calls return the identical token, and each of them
\* sends exactly the one refresh-asking broker request of a single fetch (two
\* together), neither fetching a second time.
C3_OneFetchEach ==
    C3_Case =>
      /\ Cur.end.val = Prv.end.val
      /\ RefreshAsking(Prv.reqs) = 1 /\ Len(Prv.reqs) = 1
      /\ RefreshAsking(Cur.reqs) = 1 /\ Len(Cur.reqs) = 1
C3_Witness ==
    /\ C3_Case
    /\ Prv.end.val = Tokens[1] /\ Cur.end.val = Tokens[1]
    /\ Len(Prv.reqs) + Len(Cur.reqs) = 2

\* The positions, in the requests of a tool invocation, of those sent to the
\* remote API.
RemoteSent(f) == {k \in DOMAIN f.reqs : f.reqs[k].to = "todoist"}
BearerOf(tok) == <<"Bearer ", IF tok = Undefined THEN "undefined" ELSE tok>>

\* C4: in every invocation of a bypass-path tool, refreshTokenIfNeeded has
\* returned before the remote request is sent, the request carries as bearer
\* token the token this invocation's refreshTokenIfNeeded returned, and when
\* refreshTokenIfNeeded fails no remote request is sent at all.
C4_RefreshBeforeRemote ==
    \A i \in Inv :
      LET f == inv[i]
      IN f.op \in BypassTools =>
           /\ \A k \in RemoteSent(f) :
                 /\ k = Len(f.reqs) /\ k > 1
                 /\ \A j \in 1 .. (k - 1) : f.reqs[j].to = "broker"
                 /\ f.end.st = "returned"
                 /\ f.reqs[k].authorization = BearerOf(f.end.val)
           /\ f.pc \in {"fetch1", "fetch2"} => RemoteSent(f) = {} /\ f.end = NotYet
           /\ f.pc = "remote" => RemoteSent(f) # {}
           /\ f.end.st = "threw" =>
                 RemoteSent(f) = {} /\ f.pc = "done" /\ f.res.isError
           /\ (f.pc = "done" /\ f.end.st = "returned") => RemoteSent(f) # {}
\* The second of two invocations: its refresh returned a token newer than
\* the one of startup, and its remote request carried that newer token.
C4_Witness ==
    /\ ncalls = 2
    /\ todoistApi = Tokens[1]
    /\ \E i \in Inv :
         /\ inv[i].op = "archiveProject" /\ inv[i].pc = "done" /\ ~inv[i].res.isError
         /\ inv[i].end.st = "returned" /\ inv[i].end.val = Tokens[2]
         /\ inv[i].reqs[Len(inv[i].reqs)].to = "todoist"
         /\ inv[i].reqs[Len(inv[i].reqs)].authorization = <<"Bearer ", Tokens[2]>>
    /\ \E i \in Inv :
         inv[i].op \in BypassTools /\ inv[i].pc = "done" /\ inv[i].end.st = "threw"
           /\ RemoteSent(inv[i]) = {}

\* ---------------------------------------------------------------- errors
\* The code throws plain Error objects; the kinds of failure are told apart
\* by the message of the throw site.
ConfigurationError ==
    [name |-> "Error",
     message |-> <<"Missing required Nango environment variables: NANGO_CONNECTION_ID, NANGO_INTEGRATION_ID, NANGO_BASE_URL, NANGO_SECRET_KEY">>]
MissingTokenError ==
    [name |-> "Error",
     message |-> <<"Failed to get access token: ", "Access token not found in Nango credentials">>]
IsTransportError(err) == err.name = "FetchError"
IsBrokerRequestError(err) ==
    err.name = "Error" /\ Len(err.message) > 0
      /\ err.message[1] = "Failed to get connection credentials: "
Carries(err, x) == \E k \in DOMAIN err.message : err.message[k] = x
StatusCodes == {"401", "500"}
\* At least one of the four configuration values is absent or empty.
ConfigIncomplete == \E k \in DOMAIN env : env[k] = Undefined \/ env[k] = ""
IsFetch(f) == f.op = "getConnectionCredentials"

\* C5: getConnectionCredentials fails with the configuration error whenever
\* at least one of the four configuration values is absent or the empty
\* string, and then no broker request is sent; the failure is not a transport
\* failure.
C5_ConfigurationError ==
    /\ (IsFetch(Cur) /\ ConfigIncomplete) =>
          /\ Cur.pc = "done"
          /\ Cur.end = Threw(ConfigurationError)
          /\ ~IsTransportError(Cur.end.err) /\ ~IsBrokerRequestError(Cur.end.err)
    /\ ConfigIncomplete =>
          /\ \A i \in Slots : inv[i].reqs = <<>> /\ wire[i] = WireIdle
          /\ prev.reqs = <<>>
    /\ (IsFetch(Cur) /\ Cur.end.err = ConfigurationError) => ConfigIncomplete
C5_Witness ==
    /\ env.NANGO_SECRET_KEY = "" /\ env.NANGO_CONNECTION_ID = "conn-1"
    /\ env.NANGO_INTEGRATION_ID = "todoist" /\ env.NANGO_BASE_URL = "https://api.nango.dev"
    /\ IsFetch(Cur) /\ Cur.pc = "done"
    /\ Cur.end = Threw(ConfigurationError) /\ Cur.reqs = <<>>

\* The broker answered successfully with a body that has no
\* credentials.access_token.
AnsweredWithoutToken(r) ==
    /\ r.kind = "http" /\ r.status = 200
    /\ ~r.json.hasCredentials \/ r.json.access_token \in {Undefined, ""}

\* C6: getAccessToken fails with the missing-token error when the broker
\* answered successfully without credentials.access_token, and the error it
\* reports then differs from the one it reports when the request itself
\* failed (configuration, broker status, transport).
C6_MissingTokenError ==
    (Cur.op = "getAccessToken" /\ Cur.pc = "done") =>
      /\ AnsweredWithoutToken(Cur.r1) => Cur.end = Threw(MissingTokenError)
      /\ Cur.f1.st = "threw" =>
            /\ Cur.end.st = "threw"
            /\ Cur.end.err # MissingTokenError
            /\ Cur.end.err.message # MissingTokenError.message
            /\ Carries(Cur.end.err, Cur.f1.err.message[1])
      /\ Cur.end.err = MissingTokenError =>
            Cur.f1.st = "returned" /\ AnsweredWithoutToken(Cur.r1)
C6_Witness ==
    /\ Cur.op = "getAccessToken" /\ Cur.pc = "done"
    /\ Cur.r1.kind = "http" /\ Cur.r1.status = 200
    /\ Cur.r1.json.hasCredentials /\ Cur.r1.json.access_token = Undefined
    /\ Len(Cur.reqs) = 1
    /\ Cur.end = Threw(MissingTokenError)

\* C7: for every non-success status of the broker, getConnectionCredentials
\* fails with the broker-request error carrying the status code and the
\* response body, and returns no credentials; a network-level failure
\* surfaces as another error, which carries no status.
C7_BrokerRequestError ==
    (IsFetch(Cur) /\ Cur.pc = "done" /\ Len(Cur.reqs) = 1) =>
      /\ (Cur.r1.kind = "http" /\ (Cur.r1.status < 200 \/ Cur.r1.status > 299)) =>
            /\ Cur.end.st = "threw" /\ Cur.end.creds = NoBody
            /\ IsBrokerRequestError(Cur.end.err)
            /\ Carries(Cur.end.err, StatusString(Cur.r1.status))
            /\ Carries(Cur.end.err, Cur.r1.text)
      /\ Cur.r1.kind = "fail" =>
            /\ Cur.end.st = "threw" /\ Cur.end.creds = NoBody
            /\ IsTransportError(Cur.end.err) /\ ~IsBrokerRequestError(Cur.end.err)
            /\ \A c \in StatusCodes : ~Carries(Cur.end.err, c)
      /\ IsBrokerRequestError(Cur.end.err) => Cur.r1.kind = "http"
C7_Witness ==
    /\ IsFetch(Cur) /\ Cur.pc = "done" /\ Len(Cur.reqs) = 1
    /\ Cur.r1.kind = "http" /\ Cur.r1.status = 500 /\ Cur.r1.text = "oops"
    /\ Cur.end.st = "threw"
    /\ Cur.end.err.message =
         <<"Failed to get connection credentials: ", "500", " ", "Internal Server Error", " - ", "oops">>

\* ------------------------------------------------------------ isTokenExpired
\* 300 seconds, in the milliseconds of Date.getTime().
SkewMs == 300 * 1000
\* isTokenExpired was evaluated in frame f, at time f.te, on credentials
\* that have an expiry date.
EvaluatedWithDate(f) ==
    f.evald /\ f.f1.creds.hasCredentials /\ f.f1.creds.expires_at.kind = "iso"
ExpiresAtOf(f) == f.f1.creds.expires_at.ms
\* ... on credentials without an expiry date.
EvaluatedWithoutDate(f) ==
    f.evald /\ (~f.f1.creds.hasCredentials \/ f.f1.creds.expires_at = ExpAbsent)

\* C8: for credentials whose expires_at is exactly now + 300 seconds,
\* isTokenExpired returns true.
C8_BoundaryExpired ==
    \A f \in {Cur, Prv} :
      (EvaluatedWithDate(f) /\ ExpiresAtOf(f) = f.te + SkewMs) => f.expired

\* C9: for credentials with expires_at present, isTokenExpired returns true
\* for every expires_at strictly earlier than now + 300 seconds and false for
\* every expires_at strictly later.
C9_EarlierTrueLaterFalse ==
    \A f \in {Cur, Prv} :
      EvaluatedWithDate(f) =>
        /\ ExpiresAtOf(f) < f.te + SkewMs => f.expired
        /\ ExpiresAtOf(f) > f.te + SkewMs => ~f.expired
\* One call met an expiry date later than now + 300 s and the next, later,
\* one that had already passed.
C9_Witness ==
    /\ EvaluatedWithDate(Prv) /\ ExpiresAtOf(Prv) > Prv.te + SkewMs /\ ~Prv.expired
    /\ EvaluatedWithDate(Cur) /\ ExpiresAtOf(Cur) < Cur.te /\ Cur.expired
    /\ Cur.te > Prv.te

\* C10: for credentials without expires_at, isTokenExpired returns false
\* at every time, and refreshTokenIfNeeded never fetches a second time for
\* them.
C10_AbsentNeverExpired ==
    \A f \in {Cur, Prv} :
      EvaluatedWithoutDate(f) =>
        /\ ~f.expired
        /\ IsRefresh(f) => Len(f.reqs) = 1 /\ f.f2 = NotYet /\ f.pc = "done"
C10_Witness ==
    /\ IsRefresh(Cur) /\ Cur.pc = "done" /\ Cur.te > T0
    /\ Cur.f1.creds = Body(TRUE, Tokens[1], ExpAbsent)
    /\ EvaluatedWithoutDate(Cur) /\ ~Cur.expired
    /\ Len(Cur.reqs) = 1 /\ Cur.end = Returned(Cur.f1.creds, Tokens[1])

\* ------------------------------------------------------------- the server
\* A request ended in a failure: no response, or a status that is not 2xx.
RequestFailed(r) == r.kind = "fail" \/ r.status < 200 \/ r.status > 299
BrokerSent(f) == {k \in DOMAIN f.reqs : f.reqs[k].to = "broker"}
IsTool(f) == f.op \in BypassTools \cup ClientTools

\* C11: no request is retried.  One getConnectionCredentials sends at most
\* one broker request (startup sends at most one, a refresh at most two, the
\* second only after the first succeeded), and once a broker or remote
\* request has failed the operation sends no further request and ends at
\* once, reporting the failure.
C11_NoRetry ==
    /\ [](/\ Len(inv[Main].reqs) <= 1
          /\ \A i \in Inv :
                Cardinality(BrokerSent(inv[i])) <= 2
                  /\ Cardinality(RemoteSent(inv[i])) <= 1)
    /\ [][\A i \in Slots :
            /\ (wire[i].stage = "answered" /\ RequestFailed(wire[i].resp)
                   /\ inv'[i] # inv[i]) =>
                  /\ inv'[i].pc = "done" /\ inv'[i].reqs = inv[i].reqs
                  /\ wire'[i] = WireIdle
                  /\ inv'[i].end.st = "threw"
                  /\ IsTool(inv[i]) => inv'[i].res.isError
                  /\ i = Main => phase' = "exited"
            /\ (inv[i].pc = "remote" /\ inv'[i] # inv[i]) =>
                  /\ inv'[i].pc = "done" /\ inv'[i].reqs = inv[i].reqs
                  /\ wire'[i] = WireIdle]_vars
\* One invocation ended after its single, failed broker request, another
\* after its failed remote request.
C11_Witness ==
    /\ inv["a"].op \in BypassTools /\ inv["a"].pc = "done"
    /\ Len(inv["a"].reqs) = 1 /\ inv["a"].end.st = "threw"
    /\ IsBrokerRequestError(inv["a"].end.err) /\ inv["a"].res.isError
    /\ inv["b"].op \in BypassTools /\ inv["b"].pc = "done"
    /\ RemoteSent(inv["b"]) = {Len(inv["b"].reqs)} /\ inv["b"].res.isError

\* C12: the server is connected to the transport (serves) only after
\* initializeTodoistApi has succeeded; if it fails (configuration, broker
\* failure or missing token) the process exits, for good, without having
\* been connected, so that no tool invocation is ever handled with an
\* uninitialized API client.
C12_ConnectAfterInit ==
    /\ [](/\ phase = "serving" =>
                /\ inv[Main].op = "initializeTodoistApi" /\ inv[Main].pc = "done"
                /\ inv[Main].end.st = "returned"
                /\ todoistApi = inv[Main].end.val
                /\ todoistApi \notin {Undefined, ""}
          /\ (inv[Main].pc = "done" /\ inv[Main].end.st = "threw") =>
                phase = "exited" /\ todoistApi = Undefined
          /\ phase # "serving" => \A i \in Inv : inv[i] = Frame0 /\ wire[i] = WireIdle
          /\ phase = "starting" => todoistApi = Undefined)
    /\ [][/\ phase = "exited" => vars' = vars
          /\ phase' = "serving" =>
                phase \in {"starting", "serving"}]_vars
\* Startup met a broker that answered without an access token: the process
\* exited and nothing was served.
C12_Witness ==
    /\ phase = "exited"
    /\ inv[Main].op = "initializeTodoistApi" /\ inv[Main].pc = "done"
    /\ Len(inv[Main].reqs) = 1
    /\ inv[Main].end = Threw(MissingTokenError)
    /\ \A i \in Inv : inv[i] = Frame0

\* The invocation in frame f has ended after a failure of its broker call or
\* of its remote call.
CallFailed(f) ==
    /\ IsTool(f) /\ f.pc = "done"
    /\ f.end.st = "threw" \/ (RemoteSent(f) # {} /\ RequestFailed(f.r1))

\* C13: once startup has succeeded, a tool whose broker or remote call fails
\* (rejected fetch or non-success status) returns the failure result, with
\* the error flag set, and the process keeps running: no such failure ends
\* the process.
C13_FailureResult ==
    /\ [](\A i \in Inv :
            CallFailed(inv[i]) =>
              /\ inv[i].res.isError
              /\ inv[i].res.text = <<FailureText(inv[i].op)>>
              /\ phase = "serving")
    /\ [][phase = "serving" => phase' = "serving"]_vars
\* A bypass-path invocation ended on a 401 of the remote API, an API-client
\* invocation on a network failure; the server still serves.
C13_Witness ==
    /\ phase = "serving"
    /\ \E i \in Inv :
         /\ inv[i].op = "renameSharedLabel" /\ CallFailed(inv[i])
         /\ inv[i].end.st = "returned" /\ inv[i].r1.kind = "http" /\ inv[i].r1.status = 401
         /\ inv[i].res = [isError |-> TRUE, text |-> <<"Failed to rename shared label">>]
    /\ \E i \in Inv :
         /\ inv[i].op = "listTasks" /\ CallFailed(inv[i]) /\ inv[i].r1.kind = "fail"
         /\ inv[i].res = [isError |-> TRUE, text |-> <<"Failed to fetch tasks">>]

OwnResult(f) ==
    IF f.end.st = "threw" THEN [isError |-> TRUE, text |-> <<FailureText(f.op)>>]
    ELSE IF RequestFailed(f.r1) THEN [isError |-> TRUE, text |-> <<FailureText(f.op)>>]
    ELSE [isError |-> FALSE,
          text |-> IF f.op \in {"getSharedLabels"} \cup ClientTools
                   THEN <<"{", ResultKey(f.op), ":", f.r1.text, "}">>
                   ELSE <<"{success:true}">>]

\* C15: under every interleaving of concurrent tool invocations, the result
\* of each depends only on its own arguments and on the responses to its own
\* requests: a step of one invocation leaves the others as they are, a
\* result once returned is not changed by what happens to another
\* invocation, and no invocation writes the state the invocations share (the
\* API client, the configuration).
C15_Independent ==
    /\ [](\A i \in Inv :
            (IsTool(inv[i]) /\ inv[i].pc = "done") => inv[i].res = OwnResult(inv[i]))
    /\ [][/\ \A i \in Inv :
                (inv'[i] # inv[i] \/ wire'[i] # wire[i]) =>
                  /\ \A j \in Slots \ {i} : inv'[j] = inv[j] /\ wire'[j] = wire[j]
                  /\ inv[i].pc = "done" => ncalls' = ncalls + 1 /\ inv'[i].pc # "done"
          /\ phase = "serving" =>
                todoistApi' = todoistApi /\ env' = env /\ phase' = phase]_vars
\* Two invocations of the same tool with the same arguments ran at the same
\* time: the first failed, the second succeeded.
C15_Witness ==
    /\ inv["a"].op = "archiveProject" /\ inv["b"].op = "archiveProject"
    /\ inv["a"].args = inv["b"].args
    /\ inv["a"].pc = "done" /\ inv["b"].pc = "done"
    /\ inv["a"].end.st = "threw" /\ inv["a"].res.isError
    /\ inv["b"].end.st = "returned" /\ inv["b"].r1.status = 200 /\ ~inv["b"].res.isError

\* The argument object of the remote request of a tool invocation, the keys
\* it holds and the value it holds under a key.
BodyOf(f) == f.reqs[1].body
KeysOf(obj) == {obj[n][1] : n \in DOMAIN obj}
Holds(obj, k, v) == \E n \in DOMAIN obj : obj[n] = <<k, v>>
CalledRemote(f, tool) == f.op = tool /\ Len(f.reqs) = 1 /\ f.reqs[1].to = "todoist"
\* A parameter the caller gave a value: present, and not the empty value.
Supplied(v) == v \notin {Absent, Undefined, Null, ""}
DueKeys == {"dueString", "dueDate", "dueDatetime"}
OptionalKeys ==
    {"projectId", "priority", "labels", "description", "order", "parentId",
     "sectionId", "assigneeId", "dueLang"} \cup DueKeys

\* C16 (as stated): every tool invocation that has returned a success result
\* has sent exactly one request to the remote API.
C16_OneRequestPerSuccess ==
    \A i \in Inv :
      (IsTool(inv[i]) /\ inv[i].pc = "done" /\ ~inv[i].res.isError) =>
        Cardinality(RemoteSent(inv[i])) = 1

\* C17: a createComment or listComments invocation given neither taskId nor
\* projectId (each absent or empty) has returned the failure result "Either
\* taskId or projectId is required" as soon as it was called, and has sent no
\* request, neither to the remote API nor to the broker; with one of the two
\* given, that result is never returned.
C17_MissingIdentifier ==
    \A i \in Inv :
      LET f == inv[i] IN
        f.op \in {"createComment", "listComments"} =>
          IF ~Supplied(f.args.taskId) /\ ~Supplied(f.args.projectId)
          THEN /\ f.pc = "done"
               /\ f.res = [isError |-> TRUE,
                           text |-> <<"Either taskId or projectId is required">>]
               /\ f.reqs = <<>>
               /\ wire[i] = WireIdle
          ELSE /\ Len(f.reqs) = 1 /\ f.reqs[1].to = "todoist"
               /\ f.res.text # <<"Either taskId or projectId is required">>
C17_Witness ==
    /\ inv["a"].op = "createComment" /\ inv["a"].pc = "done"
    /\ inv["a"].args.taskId = "" /\ inv["a"].args.projectId = Absent
    /\ inv["a"].args.content = "Done"
    /\ inv["a"].res.isError /\ inv["a"].reqs = <<>>

\* C18: the argument object createTask and updateTask send holds at most one
\* of dueString, dueDate and dueDatetime: dueString with its value when it is
\* supplied, otherwise dueDate when that is supplied, otherwise dueDatetime
\* when that is supplied, and none of them when none is supplied.
C18_OneDue ==
    \A i \in Inv :
      LET f == inv[i] IN
        (CalledRemote(f, "createTask") \/ CalledRemote(f, "updateTask")) =>
          LET due == KeysOf(BodyOf(f)) \cap DueKeys
              first == IF Supplied(f.args.dueString) THEN {"dueString"}
                       ELSE IF Supplied(f.args.dueDate) THEN {"dueDate"}
                       ELSE IF Supplied(f.args.dueDatetime) THEN {"dueDatetime"}
                       ELSE {}
          IN /\ due = first
             /\ \A k \in due : Holds(BodyOf(f), k, f.args[k])
             /\ Cardinality({n \in DOMAIN BodyOf(f) : BodyOf(f)[n][1] \in DueKeys}) <= 1
C18_Witness ==
    /\ CalledRemote(inv["a"], "createTask") /\ inv["a"].pc = "done"
    /\ inv["a"].args.dueString = "today" /\ inv["a"].args.dueDate = "2030-01-01"
    /\ inv["a"].args.dueDatetime = "2030-01-01T09:00:00Z"
    /\ KeysOf(BodyOf(inv["a"])) = {"content", "dueString"}
    /\ ~inv["a"].res.isError

\* C19: the argument object createTask sends holds content with the input's
\* value, and any other key only when the input supplied that key, then once
\* and with the input's value, which is neither null nor undefined; given
\* content alone, the argument object is content alone.
C19_OnlySupplied ==
    \A i \in Inv :
      LET f == inv[i] IN
        CalledRemote(f, "createTask") =>
          LET body == BodyOf(f) IN
            /\ body[1] = <<"content", f.args.content>>
            /\ \A n \in DOMAIN body :
                 /\ body[n][2] = f.args[body[n][1]]
                 /\ n > 1 => body[n][2] \notin {Absent, Undefined, Null}
                 /\ \A m \in DOMAIN body : body[m][1] = body[n][1] => m = n
            /\ (\A k \in OptionalKeys : f.args[k] = Absent) =>
                 body = <<<<"content", f.args.content>>>>
C19_Witness ==
    /\ CalledRemote(inv["a"], "createTask") /\ inv["a"].pc = "done"
    /\ inv["a"].args.content = "Buy milk"
    /\ \A k \in OptionalKeys : inv["a"].args[k] = Absent
    /\ BodyOf(inv["a"]) = <<<<"content", "Buy milk">>>>
    /\ ~inv["a"].res.isError

\* C20: the argument object updateTask sends holds assigneeId exactly when
\* the input has the key assigneeId, whatever its value (a user id, the empty
\* string, null or undefined), and then with the input's value.
C20_AssigneeForwarded ==
    \A i \in Inv :
      LET f == inv[i] IN
        CalledRemote(f, "updateTask") =>
          /\ HasKey(f.args.assigneeId) <=> "assigneeId" \in KeysOf(BodyOf(f))
          /\ HasKey(f.args.assigneeId) =>
               Holds(BodyOf(f), "assigneeId", Get(f.args.assigneeId))
C20_Witness ==
    /\ CalledRemote(inv["a"], "updateTask") /\ inv["a"].pc = "done"
    /\ inv["a"].args.assigneeId = ""
    /\ Holds(BodyOf(inv["a"]), "assigneeId", "")
    /\ ~inv["a"].res.isError

\* C21 (as stated): the argument object createTask sends holds assigneeId
\* whenever the input has the key assigneeId, also with a falsy value.
C21_CreateAssigneeForwarded ==
    \A i \in Inv :
      LET f == inv[i] IN
        (CalledRemote(f, "createTask") /\ HasKey(f.args.assigneeId)) =>
          Holds(BodyOf(f), "assigneeId", Get(f.args.assigneeId))

\* C22: a bypass-path tool whose remote request was answered with a status
\* that is not a success status has returned its failure result, error flag
\* set; and a bypass-path tool that has returned a success result has sent a
\* remote request that was answered with a success status.
C22_StatusDecides ==
    \A i \in Inv :
      LET f == inv[i] IN
        (f.op \in BypassTools /\ f.pc = "done") =>
          /\ (RemoteSent(f) # {} /\ f.r1.kind = "http" /\ ~ResponseOk(f.r1)) =>
               f.res = [isError |-> TRUE, text |-> <<FailureText(f.op)>>]
          /\ ~f.res.isError =>
               /\ Cardinality(RemoteSent(f)) = 1
               /\ f.r1.kind = "http" /\ f.r1.status \in 200 .. 299
               /\ f.res.text = IF f.op = "getSharedLabels"
                               THEN <<"{", "labels", ":", f.r1.text, "}">>
                               ELSE <<"{success:true}">>
C22_Witness ==
    /\ inv["a"].op = "getSharedLabels" /\ inv["a"].pc = "done"
    /\ inv["a"].r1.kind = "http" /\ inv["a"].r1.status = 401
    /\ inv["a"].res = [isError |-> TRUE, text |-> <<"Failed to get shared labels">>]
    /\ inv["b"].op = "archiveProject" /\ inv["b"].pc = "done"
    /\ inv["b"].r1.status = 200 /\ inv["b"].res.text = <<"{success:true}">>

\* An invocation that has been dispatched and has not returned.
InFlight(f) == f.pc \notin {"idle", "done"}
\* The step that comes next for the operation in slot i is its own: the
\* answer to its request, or the delivery of that answer.
OwnStepEnabled(i) ==
    \/ ENABLED BrokerHandle(i)
    \/ ENABLED Deliver(i)
    \/ i \in Inv /\ ENABLED DeliverRemote(i)

\* C23: when every network call is resolved in the end, every tool invocation
\* in flight returns a result, and it returns one only (a returned invocation
\* stays as it is until its slot is dispatched again); startup reaches the
\* serving state or ends the process; and an operation in flight can always
\* take its next step whatever the other invocations are doing.
C23_EveryCallReturns ==
    /\ \A i \in Inv : InFlight(inv[i]) ~> (inv[i].pc = "done")
    /\ (phase = "starting") ~> (phase \in {"serving", "exited"})
    /\ [](\A i \in Slots : (phase # "exited" /\ InFlight(inv[i])) => OwnStepEnabled(i))
    /\ [](\A i \in Inv : InFlight(inv[i]) => inv[i].res = NoResult)
    /\ [][\A i \in Inv :
            (inv[i].pc = "done" /\ inv'[i] # inv[i]) => ncalls' = ncalls + 1]_vars
C23_Witness ==
    /\ phase = "serving"
    /\ inv["a"].op = "archiveProject" /\ inv["a"].pc = "fetch1" /\ wire["a"].stage = "sent"
    /\ inv["b"].op = "archiveProject" /\ inv["b"].pc = "done" /\ ~inv["b"].res.isError

\* C24: the launcher has started the server only if dist/server.js existed
\* when it looked or a build it spawned has ended with code 0; when the file
\* did not exist it has spawned a build before anything else, and never more
\* than one; and after a build that ended with another code, by a signal, or
\* could not be spawned, the launcher has exited with status 1, has not
\* started the server, and the server has not run.
C24_BuildBeforeStart ==
    /\ launcher.started =>
         \/ launcher.existed /\ launcher.builds = 0
         \/ launcher.builds = 1 /\ launcher.built = "0"
    /\ (~launcher.existed /\ launcher.pc # "check") => launcher.builds = 1
    /\ launcher.builds <= 1
    /\ launcher.built \in {"1", "signal", "error"} =>
         /\ launcher.pc = "exited" /\ launcher.status = "1"
         /\ ~launcher.started
         /\ phase = "starting" /\ inv[Main] = Frame0 /\ todoistApi = Undefined
    /\ (phase # "starting" \/ inv[Main].pc # "idle") => launcher.started
C24_Witness ==
    /\ ~launcher.existed /\ launcher.builds = 1 /\ launcher.built = "0"
    /\ launcher.started /\ launcher.pc = "running"
    /\ phase = "serving"

\* The access tokens a broker can hand out.
BrokerTokens == {Tokens[n] : n \in DOMAIN Tokens}

\* C25 (as stated): every remote request of a bypass-path tool carries as
\* bearer token a non-empty access token taken from a broker response, and an
\* invocation whose refreshTokenIfNeeded got a broker response without access
\* token (or without credentials) sends no remote request and returns a
\* failure result.
C25_BearerFromBroker ==
    \A i \in Inv :
      LET f == inv[i] IN
        f.op \in BypassTools =>
          /\ \A k \in RemoteSent(f) :
               \E tok \in BrokerTokens : f.reqs[k].authorization = <<"Bearer ", tok>>
          /\ (f.end.st = "returned" /\ Falsy(f.end.val)) =>
               RemoteSent(f) = {} /\ f.pc = "done" /\ f.res.isError

\* C26 (as stated): whenever a bypass-path invocation sends its remote
\* request, the bearer token of the request is the access token the broker
\* holds at that moment.
C26_TokenCurrentAtSend ==
    [][\A i \in Inv :
         (/\ inv'[i].op \in BypassTools
          /\ RemoteSent(inv[i]) = {}
          /\ RemoteSent(inv'[i]) # {}) =>
           \A k \in RemoteSent(inv'[i]) :
             inv'[i].reqs[k].authorization = BearerOf(broker'.cred.access_token)]_vars

\* C27: for credentials whose expires_at is present and is no date,
\* isTokenExpired returns false, and a refreshTokenIfNeeded that got such
\* credentials from its first fetch returns their token without a second
\* fetch.
C27_UnparsableNeverExpired ==
    \A f \in {Cur, Prv} :
      (f.evald /\ f.f1.creds.hasCredentials /\ f.f1.creds.expires_at = ExpInvalid) =>
        /\ ~f.expired
        /\ IsRefresh(f) =>
             /\ Len(f.reqs) = 1 /\ f.f2 = NotYet /\ f.pc = "done"
             /\ f.end = Returned(f.f1.creds, f.f1.creds.access_token)
C27_Witness ==
    /\ IsRefresh(Cur) /\ Cur.pc = "done"
    /\ Cur.f1.creds = Body(TRUE, Tokens[1], ExpInvalid)
    /\ Cur.evald /\ ~Cur.expired
    /\ Len(Cur.reqs) = 1 /\ Cur.end = Returned(Cur.f1.creds, Tokens[1])
    /\ Prv.op = "none"

\* The optional fields the schemas of createTask and updateTask declare, the
\* due representations apart.
SchemaKeys(tool) ==
    IF tool = "createTask"
    THEN {"projectId", "priority", "labels", "order", "parentId", "sectionId",
          "assigneeId", "dueLang"}
    ELSE {"content", "labels", "priority", "dueLang", "assigneeId"}

\* C28 (as stated): every optional field of the schema that the input of
\* createTask or updateTask holds is in the argument object sent, with the
\* input's value, whatever the value (0 and the empty string included).
C28_SuppliedForwarded ==
    \A i \in Inv :
      LET f == inv[i] IN
        (CalledRemote(f, "createTask") \/ CalledRemote(f, "updateTask")) =>
          \A k \in SchemaKeys(f.op) :
            HasKey(f.args[k]) => Holds(BodyOf(f), k, Get(f.args[k]))

\* The strings a request is made of, and the strings of a sequence.
Rng(sq) == {sq[n] : n \in DOMAIN sq}
PairStrings(sq) == UNION {{sq[n][1], sq[n][2]} : n \in DOMAIN sq}
Pieces(r) == Rng(r.url) \cup Rng(r.authorization) \cup PairStrings(r.query) \cup PairStrings(r.body)
SecretKey == env.NANGO_SECRET_KEY

\* C29: a request to the broker carries the secret key as its bearer token
\* and no access token anywhere; a request to the remote API carries the
\* secret key nowhere; and no tool result, success or failure, contains the
\* secret key or an access token.
C29_SecretsStayApart ==
    /\ \A i \in Slots : \A k \in DOMAIN inv[i].reqs :
         LET r == inv[i].reqs[k] IN
           /\ r.to = "broker" =>
                /\ r.authorization = <<"Bearer ", SecretKey>>
                /\ Pieces(r) \cap BrokerTokens = {}
           /\ r.to = "todoist" => SecretKey \notin Pieces(r)
    /\ \A i \in Inv : Rng(inv[i].res.text) \cap (BrokerTokens \cup {SecretKey}) = {}
C29_Witness ==
    /\ inv["a"].op = "getSharedLabels" /\ inv["a"].pc = "done" /\ ~inv["a"].res.isError
    /\ Len(inv["a"].reqs) = 3
    /\ inv["a"].reqs[2].authorization = <<"Bearer ", "nango-secret">>
    /\ inv["a"].reqs[3].authorization = <<"Bearer ", Tokens[2]>>
    /\ inv["b"].op = "listTasks" /\ inv["b"].pc = "done" /\ inv["b"].res.isError
    /\ inv["b"].reqs[1].authorization = <<"Bearer ", Tokens[1]>>

IdKeys == {"taskId", "projectId"}

\* C30: the argument object createComment and listComments send holds
\* exactly one identifier: taskId, with the input's value, when taskId is
\* supplied (whether or not projectId is too), and projectId only when taskId
\* is absent or empty.
C30_TaskIdFirst ==
    \A i \in Inv :
      LET f == inv[i] IN
        (CalledRemote(f, "createComment") \/ CalledRemote(f, "listComments")) =>
          LET body == BodyOf(f)
              id == IF Supplied(f.args.taskId) THEN "taskId" ELSE "projectId"
          IN /\ KeysOf(body) \cap IdKeys = {id}
             /\ Holds(body, id, f.args[id]) /\ Supplied(f.args[id])
             /\ Cardinality({n \in DOMAIN body : body[n][1] \in IdKeys}) = 1
C30_Witness ==
    /\ CalledRemote(inv["a"], "createComment") /\ inv["a"].pc = "done"
    /\ inv["a"].args.taskId = "7001" /\ inv["a"].args.projectId = "2203306141"
    /\ BodyOf(inv["a"]) = <<<<"content", "Done">>, <<"taskId", "7001">>>>
    /\ ~inv["a"].res.isError

====
